---- MODULE Spec2Model ----
(***************************************************************************)
(* Model of src/bot.py (wb-report-bot): the ledger aggregator              *)
(* analyze_report, the position aggregator analyze_positions, the alert    *)
(* detector check_alerts and the period comparator format_compare_message. *)
(*                                                                         *)
(* Conventions                                                             *)
(*  - A JSON object (a Python dict) is a function whose DOMAIN is the set  *)
(*    of keys that are present; a missing key is a key outside DOMAIN.     *)
(*  - A JSON value is a tagged tuple: <<"num", n>>, <<"str", s>>,          *)
(*    <<"chars", s>>, <<"bool", b>> or <<"none">> (JSON null / None).      *)
(*  - Strings that the code slices or prefix-tests (rr_dt, saleID) are     *)
(*    "chars": sequences of one-character strings, so that s[:10] and      *)
(*    s.startswith("S") are computed, not assumed.  Strings that are only  *)
(*    compared or passed on are "str".                                     *)
(*  - Money amounts are integers (whole roubles).  Python's float division *)
(*    x / s is kept exact as the fraction [num |-> x, den |-> s]; den = 0   *)
(*    stands for the ZeroDivisionError the division would raise.           *)
(*  - The Cyrillic literals of the source are transliterated (the parser   *)
(*    accepts ASCII only): "Продажа" is "Prodazha", "Возврат" is "Vozvrat". *)
(***************************************************************************)
EXTENDS Integers, Sequences, FiniteSets, TLC

VARIABLES
    rows,       \* analyze_report / check_alerts: the argument `rows`
    idx,        \* number of rows the running `for r in rows` loop has consumed
    t,          \* analyze_report: the accumulator `t` (defaultdict(float))
    daily,      \* analyze_report: the accumulator `daily`
    pc,         \* position of the running function
    orders,     \* analyze_positions: the argument `orders`
    sales,      \* analyze_positions: the argument `sales`
    pos,        \* analyze_positions: the accumulator `pos`
    threshold,  \* check_alerts: the argument `threshold`
    alerts,     \* check_alerts: the list `alerts`
    rows1,      \* cmd_compare: ledger of the first period
    rows2,      \* cmd_compare: ledger of the second period
    msg,        \* cmd_compare: the message replied with
    period_label, \* send_report: the argument `period_label`
    sent,       \* send_report: what the bot has delivered to the chat, in order
    err,        \* send_report: the step that raised, "none" while none has
    log,        \* send_report: the warnings and errors logged
    cmd,        \* the command being handled (/period or /compare)
    args,       \* context.args of the command
    reply,      \* the reply_text the command handler answered with
    fetched     \* the date ranges get_report has been called with

varsAnalyze == <<t, daily>>
varsPositions == <<orders, sales, pos>>
varsAlerts == <<threshold, alerts>>
varsCompare == <<rows1, rows2, msg>>
varsReport == <<period_label, sent, err, log>>
varsCommands == <<cmd, args, reply, fetched>>
vars == <<pc, idx, rows, varsAnalyze, varsPositions, varsAlerts, varsCompare,
          varsReport, varsCommands>>

(***************************************************************************)
(* Bounds                                                                  *)
(***************************************************************************)
MaxRows == 3        \* longest ledger handed to analyze_report / check_alerts
MaxOrders == 2      \* longest order list handed to analyze_positions
MaxSales == 2       \* longest sale list handed to analyze_positions
MaxCmpRows == 2     \* longest ledger of either period of a comparison
MaxFetch == 1       \* longest list a fetch of send_report delivers
MaxArgs == 4        \* most arguments a command is given

(***************************************************************************)
(* Configuration                                                           *)
(***************************************************************************)
\* ALERT_THRESHOLD = float(os.environ.get("ALERT_THRESHOLD", "5000"))
ALERT_THRESHOLD == 5000

(***************************************************************************)
(* JSON values and dict access                                             *)
(***************************************************************************)
None == <<"none">>
Num(n) == <<"num", n>>
Str(s) == <<"str", s>>
Chars(s) == <<"chars", s>>
Bool(b) == <<"bool", b>>

\* dict.get(key, default)
Get(d, k, default) == IF k \in DOMAIN d THEN d[k] ELSE default

\* Python truthiness of a JSON value
Truthy(v) ==
    CASE v[1] = "none" -> FALSE
      [] v[1] = "num"  -> v[2] # 0
      [] v[1] = "bool" -> v[2]
      [] v[1] = "str"  -> v[2] # ""
      [] v[1] = "chars" -> v[2] # <<>>

\* `r.get(key, 0) or 0` for a numeric field: a missing key, a null and a zero
\* all give 0, any other number gives itself
GetNum(r, k) ==
    LET v == Get(r, k, Num(0))
    IN  IF Truthy(v) THEN v[2] ELSE 0

\* s[:n]
Take(s, n) == SubSeq(s, 1, IF Len(s) < n THEN Len(s) ELSE n)

\* `(r.get("rr_dt") or "")[:10]`
GetDate(r) ==
    LET v == Get(r, "rr_dt", None)
    IN  Take(IF Truthy(v) THEN v[2] ELSE <<>>, 10)

\* r.get("doc_type_name", "")
GetDocType(r) == Get(r, "doc_type_name", Str(""))

DocSale   == Str("Prodazha")      \* "Продажа"
DocReturn == Str("Vozvrat")       \* "Возврат"

(***************************************************************************)
(* Ledger rows the fetch may deliver                                       *)
(***************************************************************************)
Ts1a == <<"2","0","2","5","-","0","1","-","0","1","T","1","0",":","0","0">>
Ts1b == <<"2","0","2","5","-","0","1","-","0","1","T","2","3",":","5","9">>
Ts2  == <<"2","0","2","5","-","0","1","-","0","2">>

RowSale1 ==
    [doc_type_name |-> DocSale, retail_price_withdisc_rub |-> Num(1000),
     ppvz_for_pay |-> Num(800), delivery_rub |-> Num(50),
     rr_dt |-> Chars(Ts1a), sa_name |-> Str("A1")]
RowSale2 ==
    [doc_type_name |-> DocSale, retail_price_withdisc_rub |-> Num(2000),
     ppvz_for_pay |-> Num(1600), rr_dt |-> Chars(Ts2)]
\* a correcting sale line: cancels RowSale1's retail amount, not its payout
RowSaleNeg ==
    [doc_type_name |-> DocSale, retail_price_withdisc_rub |-> Num(-1000),
     ppvz_for_pay |-> Num(-700), storage_fee |-> Num(7), rr_dt |-> Chars(Ts1b)]
RowReturn ==
    [doc_type_name |-> DocReturn, retail_price_withdisc_rub |-> Num(1000),
     ppvz_for_pay |-> Num(800), delivery_rub |-> Num(50), penalty |-> Num(0),
     rr_dt |-> Chars(Ts1b), nm_id |-> Num(77)]
RowFee ==
    [doc_type_name |-> Str("Logistika"), retail_price_withdisc_rub |-> Num(300),
     delivery_rub |-> Num(30), storage_fee |-> Num(20), penalty |-> Num(1200),
     deduction |-> Num(4000), acceptance |-> Num(10), sa_name |-> Str("B2")]
RowBig ==
    [retail_price_withdisc_rub |-> None, ppvz_for_pay |-> None,
     penalty |-> Num(1200), deduction |-> Num(5000), rr_dt |-> Chars(Ts2),
     sa_name |-> None, nm_id |-> Num(78)]
RowNull ==
    [doc_type_name |-> None, retail_price_withdisc_rub |-> None,
     ppvz_for_pay |-> None, delivery_rub |-> None, storage_fee |-> None,
     penalty |-> None, deduction |-> None, acceptance |-> None, rr_dt |-> None]

RowPool == {RowSale1, RowSale2, RowSaleNeg, RowReturn, RowFee, RowBig, RowNull}

SeqsUpTo(S, n) == UNION {[1..k -> S] : k \in 0..n}

(***************************************************************************)
(* analyze_report                                                          *)
(***************************************************************************)
\* t = defaultdict(float): every key reads as 0 until it is written
TZero ==
    [sales_count |-> 0, sales_sum |-> 0, ppvz_sum |-> 0,
     returns_count |-> 0, returns_sum |-> 0,
     delivery |-> 0, storage |-> 0, penalty |-> 0, deduction |-> 0,
     acceptance |-> 0,
     wb_commission |-> 0, total_deductions |-> 0, net_payout |-> 0,
     commission_pct |-> [num |-> 0, den |-> 1],
     delivery_pct |-> [num |-> 0, den |-> 1],
     total_ded_pct |-> [num |-> 0, den |-> 1]]

\* daily[d] = defaultdict(float)
DZero == [sales |-> 0, ppvz |-> 0, delivery |-> 0]

\* a plausible slip: the fee accumulators moved into an `else:` branch, and
\* the return branch also feeding the payout sum
MutAnalyzeStep(tt, r) ==
    LET sale == GetNum(r, "retail_price_withdisc_rub")
        ppvz == GetNum(r, "ppvz_for_pay")
    IN  IF GetDocType(r) = DocSale
        THEN [tt EXCEPT !.sales_count = @ + 1, !.sales_sum = @ + sale,
                        !.ppvz_sum = @ + ppvz]
        ELSE IF GetDocType(r) = DocReturn
        THEN [tt EXCEPT !.returns_count = @ + 1, !.returns_sum = @ + sale,
                        !.ppvz_sum = @ + ppvz]
        ELSE [tt EXCEPT !.delivery = @ + GetNum(r, "delivery_rub"),
                        !.storage = @ + GetNum(r, "storage_fee"),
                        !.penalty = @ + GetNum(r, "penalty"),
                        !.deduction = @ + GetNum(r, "deduction"),
                        !.acceptance = @ + GetNum(r, "acceptance")]

\* one iteration of the loop body, totals part (lines 92-116)
AnalyzeStep(tt, r) ==
    LET sale == GetNum(r, "retail_price_withdisc_rub")
        ppvz == GetNum(r, "ppvz_for_pay")
        cls  == IF GetDocType(r) = DocSale
                THEN [tt EXCEPT !.sales_count = @ + 1, !.sales_sum = @ + sale,
                                !.ppvz_sum = @ + ppvz]
                ELSE IF GetDocType(r) = DocReturn
                THEN [tt EXCEPT !.returns_count = @ + 1, !.returns_sum = @ + sale]
                ELSE tt
    IN  [cls EXCEPT !.delivery = @ + GetNum(r, "delivery_rub"),
                    !.storage = @ + GetNum(r, "storage_fee"),
                    !.penalty = @ + GetNum(r, "penalty"),
                    !.deduction = @ + GetNum(r, "deduction"),
                    !.acceptance = @ + GetNum(r, "acceptance")]

\* daily[k] with the defaultdict's zero record for a key not yet present
DGet(dd, k) == IF k \in DOMAIN dd THEN dd[k] ELSE DZero

\* a plausible slip: the daily delivery line indented into the sale branch,
\* so that only sale rows open a date bucket
MutDailyStep(dd, r) ==
    LET k   == GetDate(r)
        old == DGet(dd, k)
    IN  IF GetDocType(r) = DocSale
        THEN [d \in DOMAIN dd \cup {k} |->
                IF d = k
                THEN [old EXCEPT
                        !.sales = @ + GetNum(r, "retail_price_withdisc_rub"),
                        !.ppvz = @ + GetNum(r, "ppvz_for_pay"),
                        !.delivery = @ + GetNum(r, "delivery_rub")]
                ELSE dd[d]]
        ELSE dd

\* one iteration of the loop body, daily part (lines 100, 106-107, 117)
DailyStep(dd, r) ==
    LET k    == GetDate(r)
        old  == DGet(dd, k)
        sold == IF GetDocType(r) = DocSale
                THEN [old EXCEPT
                        !.sales = @ + GetNum(r, "retail_price_withdisc_rub"),
                        !.ppvz = @ + GetNum(r, "ppvz_for_pay")]
                ELSE old
        new  == [sold EXCEPT !.delivery = @ + GetNum(r, "delivery_rub")]
    IN  [d \in DOMAIN dd \cup {k} |-> IF d = k THEN new ELSE dd[d]]

\* Python's x / s as an exact fraction; den = 0 is the ZeroDivisionError
PyDiv(x, s) == [num |-> x, den |-> s]

\* a plausible slip: the `if s else 0` guard dropped
MutPct(x, s) == [num |-> x * 100, den |-> s]

\* `(x / s * 100) if s else 0` (lines 129-131)
Pct(x, s) ==
    IF s # 0
    THEN [num |-> PyDiv(x, s).num * 100, den |-> PyDiv(x, s).den]
    ELSE [num |-> 0, den |-> 1]

\* a plausible slip: acceptance left out of the deduction total, and the
\* payout started from the gross sale amount
MutDerive(tt) ==
    LET wb  == tt.ppvz_sum - tt.sales_sum
        ded == wb + tt.delivery + tt.storage + tt.deduction + tt.penalty
    IN  [tt EXCEPT
            !.wb_commission = wb,
            !.total_deductions = ded,
            !.net_payout = tt.sales_sum - tt.delivery - tt.storage
                           - tt.acceptance - tt.deduction - tt.penalty,
            !.commission_pct = Pct(wb, tt.sales_sum),
            !.delivery_pct = Pct(tt.delivery, tt.sales_sum),
            !.total_ded_pct = Pct(ded, tt.sales_sum)]

\* the derived metrics computed once after the fold (lines 119-131)
Derive(tt) ==
    LET wb  == tt.ppvz_sum - tt.sales_sum
        ded == wb + tt.delivery + tt.storage + tt.acceptance
               + tt.deduction + tt.penalty
    IN  [tt EXCEPT
            !.wb_commission = wb,
            !.total_deductions = ded,
            !.net_payout = tt.ppvz_sum - tt.delivery - tt.storage
                           - tt.acceptance - tt.deduction - tt.penalty,
            !.commission_pct = Pct(wb, tt.sales_sum),
            !.delivery_pct = Pct(tt.delivery, tt.sales_sum),
            !.total_ded_pct = Pct(ded, tt.sales_sum)]

RECURSIVE FoldTotals(_, _)
FoldTotals(tt, rs) ==
    IF rs = <<>> THEN tt ELSE FoldTotals(AnalyzeStep(tt, Head(rs)), Tail(rs))

RECURSIVE FoldDaily(_, _)
FoldDaily(dd, rs) ==
    IF rs = <<>> THEN dd ELSE FoldDaily(DailyStep(dd, Head(rs)), Tail(rs))

\* analyze_report(rows) as a whole: {"totals": dict(t), "daily": dict(daily)}
analyze_report(rs) ==
    [totals |-> Derive(FoldTotals(TZero, rs)), daily |-> FoldDaily(<<>>, rs)]

\* --- analyze_report run one loop iteration at a time ---
\* the locals of a function that is not running
IdleAnalyze == t = TZero /\ daily = <<>>
IdlePositions == orders = <<>> /\ sales = <<>> /\ pos = <<>>
IdleAlerts == threshold = ALERT_THRESHOLD /\ alerts = <<>>
IdleCompare == rows1 = <<>> /\ rows2 = <<>> /\ msg = <<>>
IdleReport == period_label = <<>> /\ sent = <<>> /\ err = "none" /\ log = {}
IdleCommands == cmd = "" /\ args = <<>> /\ reply = "" /\ fetched = <<>>

InitAnalyze ==
    /\ rows \in SeqsUpTo(RowPool, MaxRows)
    /\ idx = 0
    /\ t = TZero
    /\ daily = <<>>
    /\ pc = "loop"
    /\ IdlePositions /\ IdleAlerts /\ IdleCompare
    /\ IdleReport /\ IdleCommands

\* `for r in rows:` body
AnalyzeRow ==
    /\ pc = "loop"
    /\ idx < Len(rows)
    /\ t' = AnalyzeStep(t, rows[idx + 1])
    /\ daily' = DailyStep(daily, rows[idx + 1])
    /\ idx' = idx + 1
    /\ UNCHANGED <<rows, pc, varsPositions, varsAlerts, varsCompare,
                   varsReport, varsCommands>>

\* loop exhausted: derived metrics, return
AnalyzeFinish ==
    /\ pc = "loop"
    /\ idx = Len(rows)
    /\ t' = Derive(t)
    /\ pc' = "done"
    /\ UNCHANGED <<rows, idx, daily, varsPositions, varsAlerts, varsCompare,
                   varsReport, varsCommands>>

NextAnalyze == AnalyzeRow \/ AnalyzeFinish

SpecAnalyze == InitAnalyze /\ [][NextAnalyze]_vars

(***************************************************************************)
(* Properties of analyze_report                                            *)
(***************************************************************************)
\* what a ledger row's field is worth, read off the row itself: the number
\* stored under the key, and 0 when the key is missing or holds null
Amount(r, k) == IF k \in DOMAIN r /\ r[k][1] = "num" THEN r[k][2] ELSE 0

IsSaleRow(r)   == "doc_type_name" \in DOMAIN r /\ r.doc_type_name = Str("Prodazha")
IsReturnRow(r) == "doc_type_name" \in DOMAIN r /\ r.doc_type_name = Str("Vozvrat")

\* sum of field k over the rows of rs whose index is in J
RECURSIVE SumOver(_, _, _)
SumOver(rs, J, k) ==
    IF J = {} THEN 0
    ELSE LET j == CHOOSE x \in J : TRUE
         IN  Amount(rs[j], k) + SumOver(rs, J \ {j}, k)

SaleIdx(rs, n)   == {j \in 1..n : IsSaleRow(rs[j])}
ReturnIdx(rs, n) == {j \in 1..n : IsReturnRow(rs[j])}

\* every reordering of a sequence
Reorderings(rs) ==
    LET n == Len(rs)
        P == {p \in [1..n -> 1..n] : \A a, b \in 1..n : a # b => p[a] # p[b]}
    IN  {[i \in 1..n |-> rs[p[i]]] : p \in P}

DeductionIdentity(tt) ==
    /\ tt.wb_commission = tt.ppvz_sum - tt.sales_sum
    /\ tt.total_deductions = tt.wb_commission + tt.delivery + tt.storage
                             + tt.acceptance + tt.deduction + tt.penalty

\* C1: when analyze_report returns, total_deductions equals wb_commission +
\* delivery + storage + acceptance + deduction + penalty with wb_commission =
\* ppvz_sum - sales_sum, and the same holds for the result of every
\* permutation of the same rows
C1_TotalDeductions ==
    pc = "done" =>
        /\ DeductionIdentity(t)
        /\ t.total_deductions =
              SumOver(rows, SaleIdx(rows, Len(rows)), "ppvz_for_pay")
              - SumOver(rows, SaleIdx(rows, Len(rows)), "retail_price_withdisc_rub")
              + SumOver(rows, 1..Len(rows), "delivery_rub")
              + SumOver(rows, 1..Len(rows), "storage_fee")
              + SumOver(rows, 1..Len(rows), "acceptance")
              + SumOver(rows, 1..Len(rows), "deduction")
              + SumOver(rows, 1..Len(rows), "penalty")
        /\ \A q \in Reorderings(rows) :
              DeductionIdentity(analyze_report(q).totals)

\* C1 witness: a finished run over three rows that are not all alike, with a
\* non-zero commission and every fee kind present
C1_Witness ==
    /\ pc = "done"
    /\ Len(rows) = 3
    /\ rows[1] # rows[2]
    /\ rows[2] # rows[3]
    /\ t.wb_commission # 0
    /\ t.delivery # 0 /\ t.storage # 0 /\ t.acceptance # 0
    /\ t.deduction # 0 /\ t.penalty # 0

\* C2: when analyze_report returns, net_payout equals ppvz_sum - delivery -
\* storage - acceptance - deduction - penalty, where ppvz_sum is the payout of
\* the sale-type rows only and the five fee totals are taken over every row
C2_NetPayout ==
    pc = "done" =>
        /\ t.net_payout = t.ppvz_sum - t.delivery - t.storage - t.acceptance
                          - t.deduction - t.penalty
        /\ t.net_payout =
              SumOver(rows, SaleIdx(rows, Len(rows)), "ppvz_for_pay")
              - SumOver(rows, 1..Len(rows), "delivery_rub")
              - SumOver(rows, 1..Len(rows), "storage_fee")
              - SumOver(rows, 1..Len(rows), "acceptance")
              - SumOver(rows, 1..Len(rows), "deduction")
              - SumOver(rows, 1..Len(rows), "penalty")

\* C2 witness: a finished run with a sale, and a non-sale row that carries
\* both a payout amount (which must not count) and a fee (which must)
C2_Witness ==
    /\ pc = "done"
    /\ SaleIdx(rows, Len(rows)) # {}
    /\ \E j \in 1..Len(rows) :
          /\ ~IsSaleRow(rows[j])
          /\ Amount(rows[j], "ppvz_for_pay") # 0
          /\ Amount(rows[j], "delivery_rub") # 0
    /\ t.net_payout # 0

IsZeroPct(p) == p.den # 0 /\ p.num = 0

\* C3: when the aggregated sales_sum is 0, analyze_report returns without a
\* division by zero and commission_pct, delivery_pct and total_ded_pct are 0,
\* whatever the fee totals are
C3_ZeroSalesPct ==
    (pc = "done" /\ t.sales_sum = 0) =>
        /\ IsZeroPct(t.commission_pct)
        /\ IsZeroPct(t.delivery_pct)
        /\ IsZeroPct(t.total_ded_pct)

\* C3 witness: sale rows whose amounts cancel to 0 while commission, delivery
\* and the deduction total are all non-zero
C3_Witness ==
    /\ pc = "done"
    /\ t.sales_sum = 0
    /\ t.sales_count > 0
    /\ t.wb_commission # 0
    /\ t.delivery # 0
    /\ t.total_deductions # 0

\* C4: after any number of rows, sales_count and returns_count count the
\* sale-type and the return-type rows (so each row feeds at most one of them
\* and their sum never exceeds the rows consumed), sales_sum and ppvz_sum hold
\* amounts of sale rows only, returns_sum of return rows only, and the five
\* fee totals are sums over all rows, missing or null fields counting as 0
C4_Classification ==
    LET S == SaleIdx(rows, idx)
        R == ReturnIdx(rows, idx)
        A == 1..idx
    IN  /\ t.sales_count = Cardinality(S)
        /\ t.returns_count = Cardinality(R)
        /\ t.sales_count + t.returns_count <= idx
        /\ t.sales_sum = SumOver(rows, S, "retail_price_withdisc_rub")
        /\ t.ppvz_sum = SumOver(rows, S, "ppvz_for_pay")
        /\ t.returns_sum = SumOver(rows, R, "retail_price_withdisc_rub")
        /\ t.delivery = SumOver(rows, A, "delivery_rub")
        /\ t.storage = SumOver(rows, A, "storage_fee")
        /\ t.penalty = SumOver(rows, A, "penalty")
        /\ t.deduction = SumOver(rows, A, "deduction")
        /\ t.acceptance = SumOver(rows, A, "acceptance")

\* C4 witness: a sale, a return carrying a fee and a row of neither type
\* with null fields have all been consumed
C4_Witness ==
    /\ idx = 3
    /\ t.sales_count = 1
    /\ t.returns_count = 1
    /\ \E j \in 1..idx : IsReturnRow(rows[j]) /\ Amount(rows[j], "delivery_rub") > 0
    /\ \E j \in 1..idx :
          /\ "penalty" \in DOMAIN rows[j] /\ rows[j].penalty = None
          /\ "acceptance" \notin DOMAIN rows[j] \/ rows[j].acceptance = None

(***************************************************************************)
(* analyze_positions                                                       *)
(***************************************************************************)
\* order and sale records the fetches may deliver
Ord1 == [nmId |-> Num(1), subject |-> Str("Shirt"), category |-> Str("Clothes"),
         isCancel |-> Bool(FALSE), priceWithDisc |-> Num(999)]
Ord2 == [nmId |-> Num(1), subject |-> Str("Polo"), isCancel |-> Bool(TRUE)]
Ord3 == [nmId |-> Num(1), subject |-> None, category |-> Str("")]
Ord4 == [nmId |-> Num(2), subject |-> Str(""), category |-> Str("Shoes"),
         isCancel |-> Bool(TRUE)]
OrderPool == {Ord1, Ord2, Ord3, Ord4}

Sale1 == [nmId |-> Num(1), saleID |-> Chars(<<"S", "1">>),
          priceWithDisc |-> Num(500), subject |-> Str("Tee")]
Sale2 == [nmId |-> Num(1), saleID |-> Chars(<<"S", "2">>),
          priceWithDisc |-> Num(300), subject |-> Str("")]
Sale3 == [nmId |-> Num(1), saleID |-> Chars(<<"R", "9">>),
          priceWithDisc |-> Num(500), subject |-> Str("Top")]
Sale4 == [nmId |-> Num(2), saleID |-> Chars(<<"R", "3">>),
          priceWithDisc |-> Num(700)]
Sale5 == [saleID |-> Chars(<<"D", "5">>), priceWithDisc |-> Num(900),
          subject |-> None]
Sale6 == [nmId |-> Num(2), saleID |-> None, priceWithDisc |-> None]
SalePool == {Sale1, Sale2, Sale3, Sale4, Sale5, Sale6}

\* str(x) of a JSON value
PyStr(v) ==
    CASE v[1] = "none" -> "None"
      [] v[1] = "num"  -> ToString(v[2])
      [] v[1] = "bool" -> IF v[2] THEN "True" ELSE "False"
      [] v[1] = "str"  -> v[2]

\* nm = str(rec.get("nmId", "unknown"))
ItemId(rec) == PyStr(Get(rec, "nmId", Str("unknown")))

\* the record a key of `pos` starts from (the defaultdict's factory)
PZero == [ordered |-> 0, sold |-> 0, returned |-> 0, cancelled |-> 0,
          revenue |-> 0, name |-> ""]

\* pos[nm] with the defaultdict's default for a key not yet present
PGet(pp, nm) == IF nm \in DOMAIN pp THEN pp[nm] ELSE PZero

\* pos with pos[nm] replaced
PPut(pp, nm, rec) == [k \in DOMAIN pp \cup {nm} |-> IF k = nm THEN rec ELSE pp[k]]

\* a string field as `x or ...` sees it: its text when truthy, "" otherwise
TextOr(rec, k) ==
    LET v == Get(rec, k, Str(""))
    IN  IF Truthy(v) THEN v[2] ELSE ""

\* o.get("subject", "") or o.get("category", "") or nm
OrderName(o) ==
    IF TextOr(o, "subject") # "" THEN TextOr(o, "subject")
    ELSE IF TextOr(o, "category") # "" THEN TextOr(o, "category")
    ELSE ItemId(o)

\* the rule the design text describes: a name, once set, is kept
MutOrderStep(pp, o) ==
    LET nm  == ItemId(o)
        old == PGet(pp, nm)
    IN  PPut(pp, nm,
             [old EXCEPT !.name = IF @ # "" THEN @ ELSE OrderName(o),
                         !.ordered = @ + 1,
                         !.cancelled = IF Truthy(Get(o, "isCancel", None))
                                       THEN @ + 1 ELSE @])

\* body of `for o in orders:` (lines 143-147)
OrderStep(pp, o) ==
    LET nm  == ItemId(o)
        old == PGet(pp, nm)
    IN  PPut(pp, nm,
             [old EXCEPT !.name = OrderName(o),
                         !.ordered = @ + 1,
                         !.cancelled = IF Truthy(Get(o, "isCancel", None))
                                       THEN @ + 1 ELSE @])

\* s.get("subject", "") or pos[nm]["name"] or nm   (line 151)
SaleName(pp, s) ==
    IF TextOr(s, "subject") # "" THEN TextOr(s, "subject")
    ELSE IF PGet(pp, ItemId(s)).name # "" THEN PGet(pp, ItemId(s)).name
    ELSE ItemId(s)

\* line 151 alone: pos[nm]["name"] = ...
SaleNameStep(pp, s) ==
    PPut(pp, ItemId(s), [PGet(pp, ItemId(s)) EXCEPT !.name = SaleName(pp, s)])

\* str.startswith
StartsWith(cs, prefix) ==
    Len(cs) >= Len(prefix) /\ SubSeq(cs, 1, Len(prefix)) = prefix

\* stype = s.get("saleID", ""); a null saleID has no startswith
SaleIdRaises(s) == Get(s, "saleID", Chars(<<>>))[1] # "chars"

\* a plausible slip: returns counted as sales too
MutSaleStep(pp, s) ==
    LET nm    == ItemId(s)
        named == SaleNameStep(pp, s)
        stype == Get(s, "saleID", Chars(<<>>))[2]
    IN  IF StartsWith(stype, <<"S">>) \/ StartsWith(stype, <<"R">>)
        THEN PPut(named, nm,
                  [named[nm] EXCEPT !.sold = @ + 1,
                                    !.revenue = @ + GetNum(s, "priceWithDisc"),
                                    !.returned = IF StartsWith(stype, <<"R">>)
                                                 THEN @ + 1 ELSE @])
        ELSE named

\* body of `for s in sales:` (lines 150-157), for a saleID that is a string
SaleStep(pp, s) ==
    LET nm    == ItemId(s)
        named == SaleNameStep(pp, s)
        stype == Get(s, "saleID", Chars(<<>>))[2]
    IN  IF StartsWith(stype, <<"S">>)
        THEN PPut(named, nm,
                  [named[nm] EXCEPT !.sold = @ + 1,
                                    !.revenue = @ + GetNum(s, "priceWithDisc")])
        ELSE IF StartsWith(stype, <<"R">>)
        THEN PPut(named, nm, [named[nm] EXCEPT !.returned = @ + 1])
        ELSE named

InitPositions ==
    /\ orders \in SeqsUpTo(OrderPool, MaxOrders)
    /\ sales \in SeqsUpTo(SalePool, MaxSales)
    /\ pos = <<>>
    /\ idx = 0
    /\ pc = "orders"
    /\ rows = <<>>
    /\ IdleAnalyze /\ IdleAlerts /\ IdleCompare
    /\ IdleReport /\ IdleCommands

\* one iteration of `for o in orders:`
PosOrder ==
    /\ pc = "orders"
    /\ idx < Len(orders)
    /\ pos' = OrderStep(pos, orders[idx + 1])
    /\ idx' = idx + 1
    /\ UNCHANGED <<pc, orders, sales, rows, varsAnalyze, varsAlerts, varsCompare,
                   varsReport, varsCommands>>

\* the order loop is exhausted, the sale loop starts
PosOrdersEnd ==
    /\ pc = "orders"
    /\ idx = Len(orders)
    /\ pc' = "sales"
    /\ idx' = 0
    /\ UNCHANGED <<orders, sales, pos, rows, varsAnalyze, varsAlerts, varsCompare,
                   varsReport, varsCommands>>

\* one iteration of `for s in sales:`
PosSale ==
    /\ pc = "sales"
    /\ idx < Len(sales)
    /\ ~SaleIdRaises(sales[idx + 1])
    /\ pos' = SaleStep(pos, sales[idx + 1])
    /\ idx' = idx + 1
    /\ UNCHANGED <<pc, orders, sales, rows, varsAnalyze, varsAlerts, varsCompare,
                   varsReport, varsCommands>>

\* an iteration whose saleID is null: line 151 runs, line 153 raises
\* AttributeError and the function is left without a result
PosSaleRaise ==
    /\ pc = "sales"
    /\ idx < Len(sales)
    /\ SaleIdRaises(sales[idx + 1])
    /\ pos' = SaleNameStep(pos, sales[idx + 1])
    /\ pc' = "raised"
    /\ UNCHANGED <<idx, orders, sales, rows, varsAnalyze, varsAlerts, varsCompare,
                   varsReport, varsCommands>>

\* return dict(pos)
PosReturn ==
    /\ pc = "sales"
    /\ idx = Len(sales)
    /\ pc' = "done"
    /\ UNCHANGED <<idx, orders, sales, pos, rows, varsAnalyze, varsAlerts, varsCompare,
                   varsReport, varsCommands>>

NextPositions ==
    PosOrder \/ PosOrdersEnd \/ PosSale \/ PosSaleRaise \/ PosReturn

SpecPositions == InitPositions /\ [][NextPositions]_vars

(***************************************************************************)
(* Properties of analyze_positions                                         *)
(***************************************************************************)
\* how many order and sale records the loops have consumed
OrdersDone == IF pc = "orders" THEN idx ELSE Len(orders)
SalesDone  == IF pc = "orders" THEN 0 ELSE idx

\* the record holds a non-empty string under key k, read off the record
HasText(rec, k) == k \in DOMAIN rec /\ rec[k][1] = "str" /\ rec[k][2] # ""

\* the name a record carries: an order's subject or else category, a sale's
\* subject; "" when it carries none
CarriedName(rec, isOrder) ==
    IF HasText(rec, "subject") THEN rec.subject[2]
    ELSE IF isOrder /\ HasText(rec, "category") THEN rec.category[2]
    ELSE ""

\* the sale identifier of the record begins with the character c
HasPrefix(rec, c) ==
    /\ "saleID" \in DOMAIN rec
    /\ rec.saleID[1] = "chars"
    /\ Len(rec.saleID[2]) >= 1
    /\ rec.saleID[2][1] = c

MaxOf(J) == CHOOSE j \in J : \A k \in J : k <= j

\* the records the current step consumes, with whether they are orders
Consumed ==
    IF pc = "orders" /\ idx' = idx + 1 THEN {<<orders[idx + 1], TRUE>>}
    ELSE IF pc = "sales" /\ (idx' = idx + 1 \/ pc' = "raised")
    THEN {<<sales[idx + 1], FALSE>>}
    ELSE {}

\* C5 (as claimed): once an item's name is non-empty, no later order or sale
\* record for the same item that carries a different non-empty name changes it
C5_FirstNameWins ==
    [][\A c \in Consumed :
          LET nm == ItemId(c[1])
          IN  (/\ nm \in DOMAIN pos
               /\ pos[nm].name # ""
               /\ CarriedName(c[1], c[2]) # ""
               /\ CarriedName(c[1], c[2]) # pos[nm].name)
              => pos'[nm].name = pos[nm].name]_vars

\* the name last-wins resolution gives item nm after the consumed records
LastName(nm) ==
    LET SJ == {j \in 1..SalesDone :
                  ItemId(sales[j]) = nm /\ HasText(sales[j], "subject")}
        OJ == {j \in 1..OrdersDone : ItemId(orders[j]) = nm}
    IN  IF SJ # {} THEN sales[MaxOf(SJ)].subject[2]
        ELSE IF OJ # {}
        THEN (IF CarriedName(orders[MaxOf(OJ)], TRUE) # ""
              THEN CarriedName(orders[MaxOf(OJ)], TRUE) ELSE nm)
        ELSE nm

\* C5 (amended): the display name is resolved last-wins.  Every order record
\* overwrites the item's name with its subject, else its category, else the
\* item id; every sale record with a non-empty subject overwrites it with that
\* subject, one without keeps the name.  So an item's name is the subject of
\* its last sale that has one, failing that the name given by its last order,
\* failing that the item id.
C5_LastNameWins ==
    pc # "raised" =>
        /\ DOMAIN pos = {ItemId(orders[j]) : j \in 1..OrdersDone}
                        \cup {ItemId(sales[j]) : j \in 1..SalesDone}
        /\ \A nm \in DOMAIN pos : pos[nm].name = LastName(nm)

\* C5 witness: two orders of one item with different names, then a sale of
\* the item with a third name, which is the name the item ends with
C5_Witness ==
    /\ pc = "done"
    /\ Len(orders) = 2
    /\ ItemId(orders[1]) = ItemId(orders[2])
    /\ CarriedName(orders[1], TRUE) # ""
    /\ CarriedName(orders[2], TRUE) # ""
    /\ CarriedName(orders[1], TRUE) # CarriedName(orders[2], TRUE)
    /\ \E j \in 1..Len(sales) :
          /\ ItemId(sales[j]) = ItemId(orders[1])
          /\ CarriedName(sales[j], FALSE) # ""
          /\ CarriedName(sales[j], FALSE) # CarriedName(orders[2], TRUE)
          /\ pos[ItemId(orders[1])].name = CarriedName(sales[j], FALSE)

\* C6: for every item, sold is the number of its consumed sale records whose
\* identifier begins with "S" and revenue the sum of their prices; records
\* beginning with "R" only count into returned, orders and other prefixes
\* change neither; so an item seen only in return records has sold = 0,
\* revenue = 0 and returned >= 1
C6_SoldRevenue ==
    \A nm \in DOMAIN pos :
        LET Mine == {j \in 1..SalesDone : ItemId(sales[j]) = nm}
            SJ   == {j \in Mine : HasPrefix(sales[j], "S")}
            RJ   == {j \in Mine : HasPrefix(sales[j], "R")}
            OJ   == {j \in 1..OrdersDone : ItemId(orders[j]) = nm}
        IN  /\ pos[nm].sold = Cardinality(SJ)
            /\ pos[nm].revenue = SumOver(sales, SJ, "priceWithDisc")
            /\ pos[nm].returned = Cardinality(RJ)
            /\ (OJ = {} /\ RJ # {} /\ Mine = RJ) =>
                  (pos[nm].sold = 0 /\ pos[nm].revenue = 0 /\ pos[nm].returned >= 1)

\* C6 witness: the function has returned; one item was ordered (the order
\* carrying a price) and sold, another occurs in a return record only
C6_Witness ==
    /\ pc = "done"
    /\ \E j \in 1..Len(orders) :
          /\ Amount(orders[j], "priceWithDisc") > 0
          /\ pos[ItemId(orders[j])].sold >= 1
          /\ pos[ItemId(orders[j])].revenue > 0
    /\ \E nm \in DOMAIN pos :
          /\ pos[nm].ordered = 0
          /\ pos[nm].sold = 0
          /\ pos[nm].returned >= 1
          /\ \A j \in 1..Len(sales) : ItemId(sales[j]) = nm => HasPrefix(sales[j], "R")

(***************************************************************************)
(* check_alerts                                                            *)
(***************************************************************************)
\* thresholds the environment may configure: the default, one a deduction
\* of the ledger exceeds, and zero
Thresholds == {ALERT_THRESHOLD, 4500, 0}

\* nm = r.get("sa_name") or r.get("nm_id") or ""
AlertItem(r) ==
    IF Truthy(Get(r, "sa_name", None)) THEN Get(r, "sa_name", None)
    ELSE IF Truthy(Get(r, "nm_id", None)) THEN Get(r, "nm_id", None)
    ELSE Str("")

\* the two message texts, by the values they are formatted from
PenaltyAlert(penalty, dt, nm) ==
    [kind |-> "penalty", amount |-> penalty, dt |-> dt, nm |-> nm]
DeductionAlert(deduction, dt) ==
    [kind |-> "deduction", amount |-> deduction, dt |-> dt, nm |-> Str("")]

\* a plausible slip: `elif` for the deduction test
MutAlertStep(al, r, thr) ==
    LET penalty   == GetNum(r, "penalty")
        deduction == GetNum(r, "deduction")
    IN  IF penalty > 0
        THEN Append(al, PenaltyAlert(penalty, GetDate(r), AlertItem(r)))
        ELSE IF deduction >= thr
        THEN Append(al, DeductionAlert(deduction, GetDate(r)))
        ELSE al

\* body of `for r in rows:` (lines 220-227)
AlertStep(al, r, thr) ==
    LET penalty   == GetNum(r, "penalty")
        deduction == GetNum(r, "deduction")
        a1 == IF penalty > 0
              THEN Append(al, PenaltyAlert(penalty, GetDate(r), AlertItem(r)))
              ELSE al
    IN  IF deduction >= thr
        THEN Append(a1, DeductionAlert(deduction, GetDate(r)))
        ELSE a1

RECURSIVE FoldAlerts(_, _, _)
FoldAlerts(al, rs, thr) ==
    IF rs = <<>> THEN al
    ELSE FoldAlerts(AlertStep(al, Head(rs), thr), Tail(rs), thr)

\* check_alerts(rows, threshold) as a whole
check_alerts(rs, thr) == FoldAlerts(<<>>, rs, thr)

InitAlerts ==
    /\ rows \in SeqsUpTo(RowPool, MaxRows)
    /\ threshold \in Thresholds
    /\ alerts = <<>>
    /\ idx = 0
    /\ pc = "loop"
    /\ IdleAnalyze /\ IdlePositions /\ IdleCompare
    /\ IdleReport /\ IdleCommands

\* one iteration of `for r in rows:`
AlertRow ==
    /\ pc = "loop"
    /\ idx < Len(rows)
    /\ alerts' = AlertStep(alerts, rows[idx + 1], threshold)
    /\ idx' = idx + 1
    /\ UNCHANGED <<pc, rows, threshold, varsAnalyze, varsPositions, varsCompare,
                   varsReport, varsCommands>>

\* return alerts
AlertReturn ==
    /\ pc = "loop"
    /\ idx = Len(rows)
    /\ pc' = "done"
    /\ UNCHANGED <<idx, rows, alerts, threshold, varsAnalyze, varsPositions,
                   varsCompare,
                   varsReport, varsCommands>>

NextAlerts == AlertRow \/ AlertReturn

SpecAlerts == InitAlerts /\ [][NextAlerts]_vars

(***************************************************************************)
(* Properties of check_alerts                                              *)
(***************************************************************************)
\* the date a row's alerts carry, read off the row
RowDate(r) ==
    IF "rr_dt" \in DOMAIN r /\ r.rr_dt[1] = "chars"
    THEN [i \in 1..(IF Len(r.rr_dt[2]) < 10 THEN Len(r.rr_dt[2]) ELSE 10)
             |-> r.rr_dt[2][i]]
    ELSE <<>>

\* the alerts one row is due, penalty alert first
DueAlerts(r, thr) ==
    (IF Amount(r, "penalty") > 0
     THEN <<[kind |-> "penalty", amount |-> Amount(r, "penalty"),
             dt |-> RowDate(r), nm |-> AlertItem(r)]>>
     ELSE <<>>)
    \o
    (IF Amount(r, "deduction") >= thr
     THEN <<[kind |-> "deduction", amount |-> Amount(r, "deduction"),
             dt |-> RowDate(r), nm |-> Str("")]>>
     ELSE <<>>)

\* the alerts due for the first n rows, in row order
RECURSIVE DueUpTo(_, _, _)
DueUpTo(rs, n, thr) ==
    IF n = 0 THEN <<>> ELSE DueUpTo(rs, n - 1, thr) \o DueAlerts(rs[n], thr)

\* C7: check_alerts produces exactly one penalty alert per row with
\* penalty > 0 and exactly one deduction alert per row with deduction >=
\* threshold, so their number is the sum of the two row counts; alerts follow
\* row order, and within a row the penalty alert comes first.  Penalty 1200
\* with deduction 4000 against threshold 5000 gives one alert, deduction 5000
\* gives two.
C7_Alerts ==
    /\ alerts = DueUpTo(rows, idx, threshold)
    /\ Len(alerts) =
          Cardinality({j \in 1..idx : Amount(rows[j], "penalty") > 0})
          + Cardinality({j \in 1..idx : Amount(rows[j], "deduction") >= threshold})
    /\ (/\ pc = "done" /\ Len(rows) = 1 /\ threshold = 5000
        /\ Amount(rows[1], "penalty") = 1200)
       => /\ Amount(rows[1], "deduction") = 4000 => Len(alerts) = 1
          /\ Amount(rows[1], "deduction") = 5000 => Len(alerts) = 2

\* C7 witness: at the default threshold, a row with penalty 1200 and
\* deduction 4000 gave one alert and the next row, with deduction exactly
\* 5000, gave two, penalty first
C7_Witness ==
    /\ pc = "done"
    /\ threshold = 5000
    /\ Len(rows) = 3
    /\ Amount(rows[1], "penalty") = 1200 /\ Amount(rows[1], "deduction") = 4000
    /\ Amount(rows[2], "penalty") = 1200 /\ Amount(rows[2], "deduction") = 5000
    /\ Amount(rows[3], "penalty") = 0 /\ Amount(rows[3], "deduction") = 0
    /\ Len(alerts) = 3
    /\ alerts[1].kind = "penalty"
    /\ alerts[2].kind = "penalty"
    /\ alerts[3].kind = "deduction"

(***************************************************************************)
(* format_compare_message, called from cmd_compare                         *)
(***************************************************************************)
\* a period in which the only ledger line is a return without fees
RowReturnOnly ==
    [doc_type_name |-> DocReturn, retail_price_withdisc_rub |-> Num(1000),
     rr_dt |-> Chars(Ts2)]

\* ledger rows of the compared periods
CmpPool == {RowSale1, RowSale2, RowReturnOnly, RowFee}

\* t.get(key, 0)
TGet(tt, key) == IF key \in DOMAIN tt THEN tt[key] ELSE 0

Abs(x) == IF x < 0 THEN 0 - x ELSE x

\* f"{pct:.1f}": the fraction num/den (den > 0) in tenths, rounded to nearest,
\* ties to even
Tenths(num, den) ==
    LET q == (10 * num) \div den
        r == 10 * num - q * den
    IN  IF 2 * r < den THEN q
        ELSE IF 2 * r > den THEN q + 1
        ELSE IF q % 2 = 0 THEN q ELSE q + 1

\* delta(new, old) (lines 166-172): "➕ новое" is kind "new", "—" is kind
\* "dash", otherwise arrow, sign and the percentage
delta(new, old) ==
    IF old = 0
    THEN [kind |-> IF new > 0 THEN "new" ELSE "dash",
          arrow |-> "", sign |-> "", pct |-> [num |-> 0, den |-> 1], text |-> 0]
    ELSE LET pct == [num |-> (new - old) * 100, den |-> Abs(old)]
             up  == pct.num > 0
         IN  [kind |-> "pct",
              arrow |-> IF up THEN "up" ELSE "down",
              sign |-> IF up THEN "+" ELSE "",
              pct |-> pct,
              text |-> Tenths(pct.num, pct.den)]

\* row(label, key, fmt) (lines 174-178)
row(t1, t2, label, key, fmt) ==
    [label |-> label, key |-> key, fmt |-> fmt,
     v1 |-> TGet(t1, key), v2 |-> TGet(t2, key),
     d |-> delta(TGet(t2, key), TGet(t1, key))]

\* a plausible slip: `>=` in the first comparison
MutVerdictTie(n1, n2) ==
    IF n1 # 0 /\ n2 # 0
    THEN IF n2 >= n1 THEN <<[kind |-> "second", diff |-> n2 - n1]>>
         ELSE <<[kind |-> "first", diff |-> n1 - n2]>>
    ELSE <<>>

\* a plausible slip: `or` for `and` in the guard
MutVerdictGuard(n1, n2) ==
    IF n1 # 0 \/ n2 # 0
    THEN IF n2 > n1 THEN <<[kind |-> "second", diff |-> n2 - n1]>>
         ELSE IF n1 > n2 THEN <<[kind |-> "first", diff |-> n1 - n2]>>
         ELSE <<[kind |-> "tie", diff |-> 0]>>
    ELSE <<>>

\* the verdict lines appended (lines 202-212): none, or one of
\* "Период 2 лучше на diff", "Период 1 лучше на diff", "Периоды равны"
Verdict(n1, n2) ==
    IF n1 # 0 /\ n2 # 0
    THEN IF n2 > n1 THEN <<[kind |-> "second", diff |-> n2 - n1]>>
         ELSE IF n1 > n2 THEN <<[kind |-> "first", diff |-> n1 - n2]>>
         ELSE <<[kind |-> "tie", diff |-> 0]>>
    ELSE <<>>

\* format_compare_message(a1, a2, label1, label2)
format_compare_message(a1, a2, label1, label2) ==
    LET t1 == a1.totals
        t2 == a2.totals
    IN  [kind |-> "compare", label1 |-> label1, label2 |-> label2,
         lines |-> << row(t1, t2, "Vyruchka", "sales_sum", "rub"),
                      row(t1, t2, "Kol-vo prodazh", "sales_count", "sht"),
                      row(t1, t2, "Vozvraty", "returns_count", "sht"),
                      row(t1, t2, "Komissiya VB", "wb_commission", "rub"),
                      row(t1, t2, "Logistika", "delivery", "rub"),
                      row(t1, t2, "Khranenie", "storage", "rub"),
                      row(t1, t2, "Shtrafy", "penalty", "rub"),
                      row(t1, t2, "Chistymi", "net_payout", "rub") >>,
         verdict |-> Verdict(TGet(t1, "net_payout"), TGet(t2, "net_payout"))]

\* analyze_report(rows) if rows else {"totals": {}, "daily": {}}
AnalysisOrEmpty(rs) ==
    IF rs # <<>> THEN analyze_report(rs) ELSE [totals |-> <<>>, daily |-> <<>>]

\* cmd_compare from its first fetch on (lines 717-736)
InitCompare ==
    /\ pc = "fetch1"
    /\ rows1 = <<>>
    /\ rows2 = <<>>
    /\ msg = <<>>
    /\ idx = 0
    /\ rows = <<>>
    /\ IdleAnalyze /\ IdlePositions /\ IdleAlerts
    /\ IdleReport /\ IdleCommands

\* rows1 = get_report(...)
CmpFetch1 ==
    /\ pc = "fetch1"
    /\ rows1' \in SeqsUpTo(CmpPool, MaxCmpRows)
    /\ pc' = "fetch2"
    /\ UNCHANGED <<rows2, msg, idx, rows, varsAnalyze, varsPositions, varsAlerts,
                   varsReport, varsCommands>>

\* rows2 = get_report(...)
CmpFetch2 ==
    /\ pc = "fetch2"
    /\ rows2' \in SeqsUpTo(CmpPool, MaxCmpRows)
    /\ pc' = "fetched"
    /\ UNCHANGED <<rows1, msg, idx, rows, varsAnalyze, varsPositions, varsAlerts,
                   varsReport, varsCommands>>

\* either get_report raises: the except branch replies with the error
CmpFetchFails ==
    /\ pc \in {"fetch1", "fetch2"}
    /\ msg' = [kind |-> "error"]
    /\ pc' = "done"
    /\ UNCHANGED <<rows1, rows2, idx, rows, varsAnalyze, varsPositions, varsAlerts,
                   varsReport, varsCommands>>

\* `if not rows1 and not rows2`: the no-data reply
CmpNoData ==
    /\ pc = "fetched"
    /\ rows1 = <<>> /\ rows2 = <<>>
    /\ msg' = [kind |-> "nodata"]
    /\ pc' = "done"
    /\ UNCHANGED <<rows1, rows2, idx, rows, varsAnalyze, varsPositions, varsAlerts,
                   varsReport, varsCommands>>

\* the comparison is formatted and replied
CmpReply ==
    /\ pc = "fetched"
    /\ ~(rows1 = <<>> /\ rows2 = <<>>)
    /\ msg' = format_compare_message(AnalysisOrEmpty(rows1), AnalysisOrEmpty(rows2),
                                     "label1", "label2")
    /\ pc' = "done"
    /\ UNCHANGED <<rows1, rows2, idx, rows, varsAnalyze, varsPositions, varsAlerts,
                   varsReport, varsCommands>>

NextCompare == CmpFetch1 \/ CmpFetch2 \/ CmpFetchFails \/ CmpNoData \/ CmpReply

SpecCompare == InitCompare /\ [][NextCompare]_vars

(***************************************************************************)
(* Properties of format_compare_message                                    *)
(***************************************************************************)
Compared == pc = "done" /\ msg.kind = "compare"

\* the net payout of a ledger, from its rows: what the sale rows remit minus
\* every fee of every row (0 for an empty ledger)
NetOf(rs) ==
    SumOver(rs, SaleIdx(rs, Len(rs)), "ppvz_for_pay")
    - SumOver(rs, 1..Len(rs), "delivery_rub")
    - SumOver(rs, 1..Len(rs), "storage_fee")
    - SumOver(rs, 1..Len(rs), "acceptance")
    - SumOver(rs, 1..Len(rs), "deduction")
    - SumOver(rs, 1..Len(rs), "penalty")

\* a delta that shows neither an increase nor a decrease
ShowsNoChange(d) == d.kind = "dash" \/ (d.kind = "pct" /\ d.text = 0)

TieVerdict == <<[kind |-> "tie", diff |-> 0]>>

\* C8 (as claimed): comparing a period against itself shows no change on
\* every compared metric and ends with the tie verdict
C8_SelfCompareTie ==
    (Compared /\ rows1 = rows2) =>
        /\ \A i \in 1..Len(msg.lines) : ShowsNoChange(msg.lines[i].d)
        /\ msg.verdict = TieVerdict

\* C8 (amended): comparing a period against itself shows no change on every
\* compared metric - a 0.0% delta where the metric is non-zero, the "—" mark
\* where it is 0 - and ends with the tie verdict line exactly when the net
\* payout is non-zero; when the net payout is 0 no verdict line is emitted
C8_SelfCompare ==
    (Compared /\ rows1 = rows2) =>
        /\ Len(msg.lines) = 8
        /\ \A i \in 1..Len(msg.lines) :
              LET l == msg.lines[i]
              IN  /\ l.v1 = l.v2
                  /\ l.v1 # 0 => (l.d.kind = "pct" /\ l.d.pct.num = 0 /\ l.d.text = 0
                                  /\ l.d.sign = "")
                  /\ l.v1 = 0 => l.d.kind = "dash"
        /\ NetOf(rows1) # 0 => msg.verdict = TieVerdict
        /\ NetOf(rows1) = 0 => msg.verdict = <<>>

\* C8 witness: a period with sales and a non-zero net payout compared with
\* itself: some metrics are zero, some are not, and the verdict is the tie
C8_Witness ==
    /\ Compared
    /\ rows1 = rows2
    /\ NetOf(rows1) # 0
    /\ \E i \in 1..8 : msg.lines[i].v1 = 0
    /\ \E i \in 1..8 : msg.lines[i].v1 < 0
    /\ \E i \in 1..8 : msg.lines[i].v1 > 0
    /\ msg.verdict = TieVerdict

\* C9: for each compared metric, when the first value is 0 the delta is "new"
\* exactly when the second is > 0 and "no change" exactly when the second is
\* also 0; when the first value is non-zero the delta is the percentage
\* (second - first) / |first| * 100, with the increase marker when the second
\* value is larger and the decrease marker when it is smaller
C9_DeltaRule ==
    Compared =>
        \A i \in 1..Len(msg.lines) :
            LET l == msg.lines[i]
            IN  /\ l.v1 = 0 =>
                      /\ l.d.kind = "new" <=> l.v2 > 0
                      /\ l.d.kind = "dash" <=> l.v2 = 0
                /\ l.v1 # 0 =>
                      /\ l.d.kind = "pct"
                      /\ l.d.pct.num * Abs(l.v1) = (l.v2 - l.v1) * 100 * l.d.pct.den
                      /\ l.v2 > l.v1 => l.d.arrow = "up"
                      /\ l.v2 < l.v1 => l.d.arrow = "down"

\* C10: the verdict depends only on the two net payouts: none when either is
\* 0 or absent; otherwise the period with the strictly greater payout wins by
\* the (positive) difference, and equal non-zero payouts give the tie verdict
C10_Verdict ==
    Compared =>
        LET n1 == NetOf(rows1)
            n2 == NetOf(rows2)
        IN  /\ (n1 = 0 \/ n2 = 0) => msg.verdict = <<>>
            /\ (n1 # 0 /\ n2 # 0 /\ n2 > n1) =>
                  msg.verdict = <<[kind |-> "second", diff |-> Abs(n2 - n1)]>>
            /\ (n1 # 0 /\ n2 # 0 /\ n1 > n2) =>
                  msg.verdict = <<[kind |-> "first", diff |-> Abs(n1 - n2)]>>
            /\ (n1 # 0 /\ n1 = n2) => msg.verdict = TieVerdict

\* C10 witness: a first period with a negative net payout against a second
\* with a positive one: the second wins by the difference
C10_Witness ==
    /\ Compared
    /\ NetOf(rows1) < 0
    /\ NetOf(rows2) > 0
    /\ msg.verdict = <<[kind |-> "second", diff |-> NetOf(rows2) - NetOf(rows1)]>>

(***************************************************************************)
(* Properties of the daily rollup of analyze_report                        *)
(***************************************************************************)
\* sum of metric m over the date buckets D of the rollup dd
RECURSIVE SumBuckets(_, _, _)
SumBuckets(dd, D, m) ==
    IF D = {} THEN 0
    ELSE LET d == CHOOSE x \in D : TRUE
         IN  dd[d][m] + SumBuckets(dd, D \ {d}, m)

\* C16: the per-day rollup agrees with the totals: summed over all date
\* buckets (the empty-string bucket of undated rows included) daily sales is
\* sales_sum, daily ppvz is ppvz_sum and daily delivery is delivery; there is
\* a bucket for exactly the dates (first 10 characters of the timestamp) of
\* the rows consumed, so daily is empty iff no row was consumed
C16_DailyRollup ==
    /\ SumBuckets(daily, DOMAIN daily, "sales") = t.sales_sum
    /\ SumBuckets(daily, DOMAIN daily, "ppvz") = t.ppvz_sum
    /\ SumBuckets(daily, DOMAIN daily, "delivery") = t.delivery
    /\ DOMAIN daily = {RowDate(rows[j]) : j \in 1..idx}
    /\ (DOMAIN daily = {}) <=> (idx = 0)
    /\ pc = "done" => ((DOMAIN daily = {}) <=> (rows = <<>>))

\* C16 witness: a finished run over three rows - two with different
\* timestamps of one day, one without a date - gives two buckets, one of
\* them the empty-string bucket, with delivery booked from a non-sale row
C16_Witness ==
    /\ pc = "done"
    /\ Len(rows) = 3
    /\ Cardinality(DOMAIN daily) = 2
    /\ <<>> \in DOMAIN daily
    /\ \E i, j \in 1..3 :
          /\ Get(rows[i], "rr_dt", None) # Get(rows[j], "rr_dt", None)
          /\ RowDate(rows[i]) = RowDate(rows[j])
          /\ RowDate(rows[i]) # <<>>
    /\ t.sales_sum # 0
    /\ \E j \in 1..3 : ~IsSaleRow(rows[j]) /\ Amount(rows[j], "delivery_rub") # 0

(***************************************************************************)
(* send_report                                                             *)
(*                                                                         *)
(* The period labels are sequences of letters, one token per Cyrillic      *)
(* letter (capitals as "E", "D", "P"; "zh" is ж, "ya" is я, "ch" is ч,      *)
(* "ts" is ц, "soft" is ь, "j" is й), so that lower() and the substring    *)
(* tests of lines 501 and 523 are computed on the letters.                 *)
(***************************************************************************)
LabelWeekly  == <<"E","zh","e","n","e","d","e","l","soft","n","y","j">>  \* "Еженедельный"
LabelMonthly == <<"E","zh","e","m","e","s","ya","ch","n","y","j">>       \* "Ежемесячный"
LabelDaily   == <<"D","n","e","v","n","o","j">>                          \* "Дневной"
LabelCustom  == <<"P","r","o","i","z","v","o","l","soft","n","y","j">>   \* "Произвольный"
Labels == {LabelWeekly, LabelMonthly, LabelDaily, LabelCustom}

WordMonth == <<"m","e","s","ya","ts">>      \* "месяц"
WordWeek  == <<"n","e","d","e","l">>        \* "недел"

\* str.lower(), letter by letter
LowerLetter(c) ==
    CASE c = "E" -> "e" [] c = "D" -> "d" [] c = "P" -> "p" [] OTHER -> c
Lower(w) == [i \in 1..Len(w) |-> LowerLetter(w[i])]

\* `needle in hay`
Contains(hay, needle) ==
    \E i \in 0..(Len(hay) - Len(needle)) :
        SubSeq(hay, i + 1, i + Len(needle)) = needle

\* `"месяц" in period_label.lower()`  (line 501)
IsMonthly(label) == Contains(Lower(label), WordMonth)

\* `'weekly' if 'недел' in period_label.lower() else 'monthly'`  (line 523)
FileKind(label) == IF Contains(Lower(label), WordWeek) THEN "weekly" ELSE "monthly"

\* what the three endpoints may answer: a status (0 for no answer at all)
\* and, with status 200, the decoded list
ReportRows   == {RowSale1, RowBig}
ReportOrders == {Ord1}
ReportSales  == {Sale1, Sale6}
Responses(pool) ==
    {[status |-> 200, body |-> b] : b \in SeqsUpTo(pool, MaxFetch)}
    \cup {[status |-> st, body |-> <<>>] : st \in {0, 401, 500}}

\* get_report (lines 49-57): 401 raises the ValueError about the key, any
\* other failure raises from requests
get_report(resp) ==
    IF resp.status = 401 THEN [raised |-> TRUE, error |-> "ledger_auth", value |-> <<>>]
    ELSE IF resp.status # 200 THEN [raised |-> TRUE, error |-> "ledger_http", value |-> <<>>]
    ELSE [raised |-> FALSE, error |-> "none", value |-> resp.body]

\* a plausible slip: the try/except of get_orders / get_sales left out
MutBestEffort(resp, what) ==
    IF resp.status # 200
    THEN [raised |-> TRUE, error |-> what, value |-> <<>>, warned |-> {}]
    ELSE [raised |-> FALSE, error |-> "none", value |-> resp.body, warned |-> {}]

\* get_orders / get_sales (lines 59-81): any failure is logged as a warning
\* and turned into []
BestEffort(resp, what) ==
    IF resp.status # 200
    THEN [raised |-> FALSE, error |-> "none", value |-> <<>>, warned |-> {what}]
    ELSE [raised |-> FALSE, error |-> "none", value |-> resp.body, warned |-> {}]

get_orders(resp) == BestEffort(resp, "orders")
get_sales(resp)  == BestEffort(resp, "sales")

RECURSIVE FoldOrders(_, _)
FoldOrders(pp, os) ==
    IF os = <<>> THEN pp ELSE FoldOrders(OrderStep(pp, Head(os)), Tail(os))

RECURSIVE FoldSales(_, _)
FoldSales(pp, ss) ==
    IF ss = <<>> THEN pp ELSE FoldSales(SaleStep(pp, Head(ss)), Tail(ss))

\* analyze_positions raises when a sale's saleID is null
PositionsRaises(ss) == \E j \in 1..Len(ss) : SaleIdRaises(ss[j])

\* analyze_positions(orders, sales) as a whole, when it does not raise
analyze_positions(os, ss) == FoldSales(FoldOrders(<<>>, os), ss)

\* the texts and the document, by what they are made from.  The per-item
\* blocks of the weekly text list at most five items; the ledgers here never
\* hold that many
format_weekly_message(analysis, positions, al) ==
    [kind |-> "text", variant |-> "weekly", totals |-> analysis.totals,
     positions |-> positions, alerts |-> Take(al, 10)]
format_monthly_message(analysis) ==
    [kind |-> "text", variant |-> "monthly", totals |-> analysis.totals,
     positions |-> <<>>, alerts |-> <<>>]
AlertMessage(al) == [kind |-> "alerts", alerts |-> al]
Document(analysis, positions, label) ==
    [kind |-> "document", filename |-> FileKind(label),
     totals |-> analysis.totals, positions |-> positions]

\* a plausible slip: the `if not rows: ... return` branch never taken
MutNoRows(rs) == FALSE

\* `if not rows:`  (line 488)
NoRows(rs) == rs = <<>>

InitReport ==
    /\ pc = "start"
    /\ period_label \in Labels
    /\ sent = <<>>
    /\ err = "none"
    /\ log = {}
    /\ rows = <<>>
    /\ idx = 0
    /\ IdleAnalyze /\ IdlePositions /\ IdleAlerts /\ IdleCompare /\ IdleCommands

\* the "forming the report" message, sent before the try block: if the send
\* raises, the exception leaves send_report
RepProgress ==
    /\ pc = "start"
    /\ \E ok \in BOOLEAN :
          IF ok
          THEN /\ sent' = Append(sent, [kind |-> "progress"])
               /\ pc' = "fetch_rows"
               /\ err' = err
          ELSE /\ sent' = sent
               /\ pc' = "crashed"
               /\ err' = "progress"
    /\ UNCHANGED <<period_label, log, rows, idx, varsAnalyze, varsPositions,
                   varsAlerts, varsCompare, varsCommands>>

\* rows = get_report(date_from, date_to)
RepFetchRows ==
    /\ pc = "fetch_rows"
    /\ \E resp \in Responses(ReportRows) :
          LET r == get_report(resp)
          IN  IF r.raised
              THEN /\ err' = r.error
                   /\ pc' = "except"
                   /\ rows' = rows
              ELSE /\ rows' = r.value
                   /\ pc' = "fetch_orders"
                   /\ err' = err
    /\ UNCHANGED <<period_label, sent, log, idx, varsAnalyze, varsPositions,
                   varsAlerts, varsCompare, varsCommands>>

\* orders = get_orders(date_from)
RepFetchOrders ==
    /\ pc = "fetch_orders"
    /\ \E resp \in Responses(ReportOrders) :
          LET r == get_orders(resp)
          IN  IF r.raised
              THEN /\ err' = r.error
                   /\ pc' = "except"
                   /\ UNCHANGED <<orders, log>>
              ELSE /\ orders' = r.value
                   /\ log' = log \cup r.warned
                   /\ pc' = "fetch_sales"
                   /\ err' = err
    /\ UNCHANGED <<period_label, sent, rows, idx, sales, pos, varsAnalyze,
                   varsAlerts, varsCompare, varsCommands>>

\* sales_data = get_sales(date_from)
RepFetchSales ==
    /\ pc = "fetch_sales"
    /\ \E resp \in Responses(ReportSales) :
          LET r == get_sales(resp)
          IN  IF r.raised
              THEN /\ err' = r.error
                   /\ pc' = "except"
                   /\ UNCHANGED <<sales, log>>
              ELSE /\ sales' = r.value
                   /\ log' = log \cup r.warned
                   /\ pc' = "fetched"
                   /\ err' = err
    /\ UNCHANGED <<period_label, sent, rows, idx, orders, pos, varsAnalyze,
                   varsAlerts, varsCompare, varsCommands>>

\* `if not rows:` the no-data message, then return
RepNoData ==
    /\ pc = "fetched"
    /\ NoRows(rows)
    /\ \E ok \in BOOLEAN :
          IF ok
          THEN /\ sent' = Append(sent, [kind |-> "nodata"])
               /\ pc' = "done"
               /\ err' = err
          ELSE /\ sent' = sent
               /\ pc' = "except"
               /\ err' = "send_nodata"
    /\ UNCHANGED <<period_label, log, rows, idx, varsAnalyze, varsPositions,
                   varsAlerts, varsCompare, varsCommands>>

\* analysis, positions and alerts are computed (lines 496-498)
RepCompute ==
    /\ pc = "fetched"
    /\ ~NoRows(rows)
    /\ IF PositionsRaises(sales)
       THEN /\ err' = "positions"
            /\ pc' = "except"
            /\ t' = analyze_report(rows).totals
            /\ daily' = analyze_report(rows).daily
            /\ UNCHANGED <<pos, alerts>>
       ELSE /\ t' = analyze_report(rows).totals
            /\ daily' = analyze_report(rows).daily
            /\ pos' = analyze_positions(orders, sales)
            /\ alerts' = check_alerts(rows, threshold)
            /\ pc' = "send_text"
            /\ err' = err
    /\ UNCHANGED <<period_label, sent, log, rows, idx, orders, sales, threshold,
                   varsCompare, varsCommands>>

\* the text report is formatted and sent (lines 501-510)
RepSendText ==
    /\ pc = "send_text"
    /\ \E ok \in BOOLEAN :
          IF ok
          THEN /\ sent' = Append(sent,
                     IF IsMonthly(period_label)
                     THEN format_monthly_message([totals |-> t, daily |-> daily])
                     ELSE format_weekly_message([totals |-> t, daily |-> daily],
                                                pos, alerts))
               /\ pc' = IF alerts # <<>> THEN "send_alerts" ELSE "send_document"
               /\ err' = err
          ELSE /\ sent' = sent
               /\ pc' = "except"
               /\ err' = "send_text"
    /\ UNCHANGED <<period_label, log, rows, idx, varsAnalyze, varsPositions,
                   varsAlerts, varsCompare, varsCommands>>

\* `if alerts:` the separate alert message (lines 513-519)
RepSendAlerts ==
    /\ pc = "send_alerts"
    /\ \E ok \in BOOLEAN :
          IF ok
          THEN /\ sent' = Append(sent, AlertMessage(alerts))
               /\ pc' = "send_document"
               /\ err' = err
          ELSE /\ sent' = sent
               /\ pc' = "except"
               /\ err' = "send_alerts"
    /\ UNCHANGED <<period_label, log, rows, idx, varsAnalyze, varsPositions,
                   varsAlerts, varsCompare, varsCommands>>

\* the workbook is built and sent (lines 522-530)
RepSendDocument ==
    /\ pc = "send_document"
    /\ \E ok \in BOOLEAN :
          IF ok
          THEN /\ sent' = Append(sent, Document([totals |-> t, daily |-> daily],
                                                pos, period_label))
               /\ pc' = "done"
               /\ err' = err
          ELSE /\ sent' = sent
               /\ pc' = "except"
               /\ err' = "send_document"
    /\ UNCHANGED <<period_label, log, rows, idx, varsAnalyze, varsPositions,
                   varsAlerts, varsCompare, varsCommands>>

\* `except Exception as e:` the error is logged and the failure message
\* sent; if that send raises too, the exception leaves send_report
RepExcept ==
    /\ pc = "except"
    /\ log' = log \cup {"error"}
    /\ \E ok \in BOOLEAN :
          IF ok
          THEN /\ sent' = Append(sent, [kind |-> "failure", error |-> err])
               /\ pc' = "done"
          ELSE /\ sent' = sent
               /\ pc' = "crashed"
    /\ UNCHANGED <<period_label, err, rows, idx, varsAnalyze, varsPositions,
                   varsAlerts, varsCompare, varsCommands>>

NextReport ==
    \/ RepProgress \/ RepFetchRows \/ RepFetchOrders \/ RepFetchSales
    \/ RepNoData \/ RepCompute \/ RepSendText \/ RepSendAlerts
    \/ RepSendDocument \/ RepExcept

SpecReport == InitReport /\ [][NextReport]_vars

(***************************************************************************)
(* Properties of send_report                                               *)
(***************************************************************************)
Kinds(ms) == {ms[i].kind : i \in 1..Len(ms)}
CountKind(ms, k) == Cardinality({i \in 1..Len(ms) : ms[i].kind = k})

\* the run is over and send_report returned (it did not let an exception out)
Returned == pc = "done"
\* the run ended with the failure message of the except branch
EndedWithFailure ==
    Returned /\ sent # <<>> /\ sent[Len(sent)].kind = "failure"
\* the ledger fetch of this run succeeded and returned no row
LedgerEmpty ==
    /\ pc \notin {"start", "fetch_rows"}
    /\ err \notin {"progress", "ledger_auth", "ledger_http"}
    /\ rows = <<>>
\* the ledger fetch of this run succeeded and returned at least one row
LedgerFilled == pc \notin {"start", "fetch_rows"} /\ rows # <<>>

\* C12: in every run in which a step inside the try block fails, the
\* requester gets exactly one failure message and no partial report: in a
\* run that ends with the failure message, neither the report text nor the
\* alert message was delivered without the document, nor the document
\* without the text.
C12_NoPartialReport ==
    /\ (Returned /\ err # "none") => CountKind(sent, "failure") = 1
    /\ EndedWithFailure =>
          /\ ("text" \in Kinds(sent) \/ "alerts" \in Kinds(sent))
                => "document" \in Kinds(sent)
          /\ "document" \in Kinds(sent) => "text" \in Kinds(sent)

\* C13 (as stated): when the ledger fetch succeeds with zero rows, the run
\* sends the no-data message and stops; no report text, alert message,
\* document or failure message is sent in that run.
C13_NoDataOnly ==
    LedgerEmpty =>
       /\ Kinds(sent) \subseteq {"progress", "nodata"}
       /\ Returned => sent = <<[kind |-> "progress"], [kind |-> "nodata"]>>

\* C13 (amended): when the ledger fetch succeeds with zero rows, nothing is
\* aggregated and no report text, alert message or document is ever sent;
\* the run that delivers the no-data message stops there, with no failure
\* message; a failure message appears in such a run only when the delivery
\* of the no-data message itself failed, and then instead of it.
C13_NoData ==
    LedgerEmpty =>
       /\ Kinds(sent) \subseteq {"progress", "nodata", "failure"}
       /\ IdleAnalyze /\ pos = <<>> /\ alerts = <<>>
       /\ "nodata" \in Kinds(sent) =>
             /\ sent = <<[kind |-> "progress"], [kind |-> "nodata"]>>
             /\ Returned /\ err = "none"
       /\ "failure" \in Kinds(sent) =>
             /\ sent = <<[kind |-> "progress"],
                         [kind |-> "failure", error |-> "send_nodata"]>>
             /\ Returned
       /\ Returned => Len(sent) = 2

C13_Witness ==
    /\ LedgerEmpty /\ Returned
    /\ sent = <<[kind |-> "progress"], [kind |-> "nodata"]>>
    /\ log = {"orders"}

\* C14: a failure of the order fetch or of the sale fetch never aborts a
\* report: the failed fetch yields the empty list (and a warning), it is
\* never what a failure message reports, and when the ledger holds at least
\* one row the run goes on to compute and, unless something else fails, to
\* send the report text and the document and no failure message.
C14_BestEffort ==
    /\ err \notin {"orders", "sales"}
    /\ "orders" \in log => orders = <<>>
    /\ "sales" \in log => sales = <<>>
    /\ \A i \in 1..Len(sent) :
          sent[i].kind = "failure" => sent[i].error \notin {"orders", "sales"}
    /\ (log \cap {"orders", "sales"} # {} /\ pc \in {"fetch_sales", "fetched"})
          => err = "none"
    /\ (LedgerFilled /\ "sales" \in log) => err # "positions"
    /\ (LedgerFilled /\ Returned /\ err = "none") =>
          /\ {"text", "document"} \subseteq Kinds(sent)
          /\ "failure" \notin Kinds(sent)
          /\ sent[Len(sent)].positions = analyze_positions(orders, sales)

C14_Witness ==
    /\ LedgerFilled /\ Returned /\ err = "none"
    /\ log = {"orders", "sales"}
    /\ orders = <<>> /\ sales = <<>>
    /\ sent[Len(sent)].kind = "document"
    /\ sent[Len(sent)].positions = <<>>
    /\ "text" \in Kinds(sent)

\* C15: a report with the monthly label is rendered with the monthly text
\* (format_monthly_message), a report with any other label with the period
\* text (format_weekly_message).
C15_FormatByLabel ==
    \A i \in 1..Len(sent) :
       sent[i].kind = "text" =>
          (sent[i].variant = "monthly" <=> period_label = LabelMonthly)

(***************************************************************************)
(* cmd_period and cmd_compare: the checks made on the arguments before     *)
(* the ledger is fetched.                                                  *)
(*                                                                         *)
(* An argument is either a token of the shape D.M.Y, kept as its three     *)
(* numbers, or a token that is not of that shape.  What send_report and    *)
(* the comparison do after their fetches is the subject of SpecReport and  *)
(* SpecCompare.                                                            *)
(***************************************************************************)
Arg(d, m, y) == [d |-> d, m |-> m, y |-> y]
ArgJunk == [raw |-> "2025-01-31"]
ArgPool == {Arg(1, 1, 2024), Arg(31, 12, 2024), Arg(1, 1, 2025),
            Arg(29, 2, 2025), ArgJunk}

\* the calendar of datetime.date
IsLeap(y) == y % 4 = 0 /\ (y % 100 # 0 \/ y % 400 = 0)
DaysInMonth(m, y) ==
    CASE m = 2 -> IF IsLeap(y) THEN 29 ELSE 28
      [] m \in {4, 6, 9, 11} -> 30
      [] OTHER -> 31
DaysBeforeMonth(m, y) ==
    <<0, 31, 59, 90, 120, 151, 181, 212, 243, 273, 304, 334>>[m]
        + (IF m > 2 /\ IsLeap(y) THEN 1 ELSE 0)
DaysBeforeYear(y) ==
    365 * (y - 1) + ((y - 1) \div 4) - ((y - 1) \div 100) + ((y - 1) \div 400)

\* datetime.strptime(arg, "%d.%m.%Y").date(): ok = FALSE is the ValueError,
\* otherwise ord is the day number of the date (date.toordinal)
strptime(a) ==
    IF "raw" \in DOMAIN a THEN [ok |-> FALSE, ord |-> 0]
    ELSE IF a.y \notin 1..9999 \/ a.m \notin 1..12 THEN [ok |-> FALSE, ord |-> 0]
    ELSE IF a.d \notin 1..DaysInMonth(a.m, a.y) THEN [ok |-> FALSE, ord |-> 0]
    ELSE [ok |-> TRUE,
          ord |-> DaysBeforeYear(a.y) + DaysBeforeMonth(a.m, a.y) + a.d]

\* the longest period /period accepts, in days (line 663)
MaxPeriodDays == 365

\* cmd_period, lines 635-667: the reply that ends the handler early, or "ok"
period_check(as) ==
    IF Len(as) # 2 THEN "usage"
    ELSE LET date_from == strptime(as[1])
             date_to   == strptime(as[2])
         IN  IF ~date_from.ok \/ ~date_to.ok THEN "bad_format"
             ELSE IF date_from.ord > date_to.ord THEN "order"
             ELSE IF date_to.ord - date_from.ord > MaxPeriodDays THEN "span"
             ELSE "ok"

\* cmd_compare, lines 690-708: the reply that ends the handler early, or "ok"
compare_check(as) ==
    IF Len(as) # 4 THEN "usage"
    ELSE LET d1_from == strptime(as[1])
             d1_to   == strptime(as[2])
             d2_from == strptime(as[3])
             d2_to   == strptime(as[4])
         IN  IF ~d1_from.ok \/ ~d1_to.ok \/ ~d2_from.ok \/ ~d2_to.ok
             THEN "bad_format"
             ELSE IF d1_from.ord > d1_to.ord \/ d2_from.ord > d2_to.ord
             THEN "order"
             ELSE "ok"

InitCommands ==
    /\ pc = "cmd"
    /\ cmd \in {"period", "compare"}
    /\ args \in SeqsUpTo(ArgPool, MaxArgs)
    /\ reply = ""
    /\ fetched = <<>>
    /\ rows = <<>>
    /\ idx = 0
    /\ IdleAnalyze /\ IdlePositions /\ IdleAlerts /\ IdleCompare /\ IdleReport

\* /period: one of the four early returns, with its corrective reply
CmdPeriodReject ==
    /\ pc = "cmd" /\ cmd = "period"
    /\ period_check(args) # "ok"
    /\ reply' = period_check(args)
    /\ pc' = "done"
    /\ UNCHANGED <<cmd, args, fetched, rows, idx, varsAnalyze, varsPositions,
                   varsAlerts, varsCompare, varsReport>>

\* /period: the checks passed, send_report is called with "Произвольный"
CmdPeriodReport ==
    /\ pc = "cmd" /\ cmd = "period"
    /\ period_check(args) = "ok"
    /\ period_label' = LabelCustom
    /\ pc' = "send_report"
    /\ UNCHANGED <<cmd, args, reply, fetched, rows, idx, varsAnalyze,
                   varsPositions, varsAlerts, varsCompare, sent, err, log>>

\* send_report: the progress message, then get_report(date_from, date_to);
\* the call is recorded with the arguments the dates were read from
CmdPeriodFetch ==
    /\ pc = "send_report"
    /\ \E ok \in BOOLEAN :
          IF ok
          THEN /\ sent' = Append(sent, [kind |-> "progress"])
               /\ fetched' = Append(fetched, <<args[1], args[2]>>)
               /\ pc' = "done"
          ELSE /\ UNCHANGED <<sent, fetched>>
               /\ pc' = "crashed"
    /\ UNCHANGED <<cmd, args, reply, rows, idx, varsAnalyze, varsPositions,
                   varsAlerts, varsCompare, period_label, err, log>>

\* /compare: one of the three early returns, with its corrective reply
CmdCompareReject ==
    /\ pc = "cmd" /\ cmd = "compare"
    /\ compare_check(args) # "ok"
    /\ reply' = compare_check(args)
    /\ pc' = "done"
    /\ UNCHANGED <<cmd, args, fetched, rows, idx, varsAnalyze, varsPositions,
                   varsAlerts, varsCompare, varsReport>>

\* /compare: the checks passed, the "loading" reply is sent
CmdCompareLoading ==
    /\ pc = "cmd" /\ cmd = "compare"
    /\ compare_check(args) = "ok"
    /\ reply' = "loading"
    /\ pc' = "cmp_fetch1"
    /\ UNCHANGED <<cmd, args, fetched, rows, idx, varsAnalyze, varsPositions,
                   varsAlerts, varsCompare, varsReport>>

\* rows1 = get_report(d1_from, d1_to); a failure goes to the except branch
CmdCompareFetch1 ==
    /\ pc = "cmp_fetch1"
    /\ fetched' = Append(fetched, <<args[1], args[2]>>)
    /\ \E ok \in BOOLEAN :
          IF ok
          THEN pc' = "cmp_fetch2" /\ reply' = reply
          ELSE pc' = "done" /\ reply' = "error"
    /\ UNCHANGED <<cmd, args, rows, idx, varsAnalyze, varsPositions,
                   varsAlerts, varsCompare, varsReport>>

\* rows2 = get_report(d2_from, d2_to), then the comparison or the except
\* branch
CmdCompareFetch2 ==
    /\ pc = "cmp_fetch2"
    /\ fetched' = Append(fetched, <<args[3], args[4]>>)
    /\ \E ok \in BOOLEAN :
          reply' = IF ok THEN "compare" ELSE "error"
    /\ pc' = "done"
    /\ UNCHANGED <<cmd, args, rows, idx, varsAnalyze, varsPositions,
                   varsAlerts, varsCompare, varsReport>>

NextCommands ==
    \/ CmdPeriodReject \/ CmdPeriodReport \/ CmdPeriodFetch
    \/ CmdCompareReject \/ CmdCompareLoading
    \/ CmdCompareFetch1 \/ CmdCompareFetch2

SpecCommands == InitCommands /\ [][NextCommands]_vars

(***************************************************************************)
(* Properties of the command handlers                                      *)
(***************************************************************************)
\* the calendar, counted rather than computed: the days of the years and
\* months that precede a date
LeapYearsUpTo(y) ==
    {k \in 1..y : k % 400 = 0 \/ (k % 4 = 0 /\ k % 100 # 0)}
DaysOfYears(y) == 365 * y + Cardinality(LeapYearsUpTo(y))
MonthLen(m, y) ==
    IF m = 2 THEN (IF DaysOfYears(y) - DaysOfYears(y - 1) = 366 THEN 29 ELSE 28)
    ELSE IF m \in {1, 3, 5, 7, 8, 10, 12} THEN 31 ELSE 30
RECURSIVE DaysOfMonths(_, _)
DaysOfMonths(m, y) ==
    IF m = 0 THEN 0 ELSE MonthLen(m, y) + DaysOfMonths(m - 1, y)
IsDate(a) ==
    /\ DOMAIN a = {"d", "m", "y"}
    /\ a.y \in 1..9999 /\ a.m \in 1..12 /\ a.d \in 1..MonthLen(a.m, a.y)
DayNumber(a) == DaysOfYears(a.y - 1) + DaysOfMonths(a.m - 1, a.y) + a.d
\* a range that is well formed, not reversed, and spans at most 365 days
GoodRange(rg) ==
    /\ IsDate(rg[1]) /\ IsDate(rg[2])
    /\ DayNumber(rg[1]) <= DayNumber(rg[2])
    /\ DayNumber(rg[2]) - DayNumber(rg[1]) <= 365
\* the ranges the user supplied with the command
UserRanges ==
    IF cmd = "period" /\ Len(args) = 2 THEN {<<args[1], args[2]>>}
    ELSE IF cmd = "compare" /\ Len(args) = 4
         THEN {<<args[1], args[2]>>, <<args[3], args[4]>>}
    ELSE {}

\* C11: every date range of /period and /compare that is malformed, has its
\* end before its start, or spans more than 365 days is rejected with a
\* corrective message before any ledger fetch: get_report is only ever
\* called for ranges that passed all three checks, and a command with a
\* range that fails one of them ends with a corrective reply and no fetch.
C11_RangesChecked ==
    /\ \A i \in 1..Len(fetched) : GoodRange(fetched[i])
    /\ (\E rg \in UserRanges : ~GoodRange(rg)) =>
          /\ fetched = <<>>
          /\ pc = "done" => reply \in {"bad_format", "order", "span"}

====
